---- MODULE Spec2Model ----
(***************************************************************************)
(* Table-Allocator: the simulated-annealing allocation engine.             *)
(*                                                                         *)
(* The model follows src/table_allocator/core.py (class TableAllocator)    *)
(* and, for the swap delta and the halved double-sum score, the older      *)
(* src/table_allocation.py.                                                *)
(*                                                                         *)
(* People are numbered; the order on the numbers stands for the string     *)
(* order used by `person1 < person2`.  Weights and scores are              *)
(* integers (a weight of 1 stands for one unit of preference weight), and  *)
(* a temperature is an exact fraction <<numerator, denominator>>, so the   *)
(* rounding of floats is not modelled.                                     *)
(*                                                                         *)
(* A list of tables is a function on 0 .. num_tables-1, as the list is     *)
(* indexed.  The preference graph is the function adj from the ordered     *)
(* pairs that have an edge to the weight; add_edge stores both directions, *)
(* as networkx does for an undirected graph.                               *)
(*                                                                         *)
(* One step of the model is one call of add_preference, the start of       *)
(* solve_with_simulated_annealing (lines 52-62), one pass of its loop, or  *)
(* its end: the return, the ValueError of random.randrange on an empty     *)
(* range, or the retry loops of _get_random_swap_candidates that no draw   *)
(* can leave ("hang").  The retry loops end with probability one whenever  *)
(* two non-empty tables exist, and then a pass is one step.                *)
(***************************************************************************)
EXTENDS Integers, Sequences, FiniteSets, TLC

\* ---- bounds of the model -------------------------------------------------
\* The program bounds neither the number of add_preference calls nor the
\* number of passes of the annealing loop; the model caps both.
MaxCalls == 2
MaxIter == 2
\* the longest sequence of move outcomes given to the temperature policy
MaxMoves == 5

\* passes of one run whose temperature trace is followed
MaxTrace == 12
\* rows of the Preferences sheet of a workbook
MaxRows == 2

\* ---- inputs ---------------------------------------------------------------
\* three people; the numbers are ordered as the names are
People == {1, 2, 3}
\* the preferences argument: an empty list or a list of one person
PreferenceLists == {{}} \cup {{p} : p \in People}
Weights == {1, 2}
NumTablesChoices == {-1, 0, 1, 2}
TableSizeChoices == {-1, 0, 1, 2}
MaxIterationsChoices == 0..MaxIter
InitialTemperatureChoices == {100}
MinTemperatureChoices == {1, 96, 101}
\* the window_size argument of _adjust_temperature: the solver's 100, and
\* windows short enough for a sequence of MaxMoves outcomes to outgrow
WindowSizeChoices == {1, 2, 3, 4, 100}

VARIABLES
    num_tables,          \* self.num_tables
    table_size,          \* self.table_size
    people,              \* self.people
    adj,                 \* self.preference_graph: adj[<<a, b>>] is the weight of edge a-b
    named,               \* history: named[{a, b}] lists <<caller, weight>> of the calls naming a and b
    calls,               \* number of add_preference calls made so far
    pc,                  \* "idle", "loop", "done", "hang", "error"
    max_iterations,      \* argument of solve_with_simulated_annealing
    initial_temperature, \* argument of solve_with_simulated_annealing
    min_temperature,     \* argument of solve_with_simulated_annealing
    initial_solution,    \* what _generate_initial_solution returned
    current_solution,
    current_score,
    best_solution,
    best_score,
    neighbor,            \* the neighbor of the last iteration
    temperature,
    accepted_moves,
    window_size,         \* argument of _adjust_temperature
    temp_history,
    iteration,           \* number of loop passes executed
    result,              \* the returned dictionary
    raised,              \* the exception that ended the call, or "none"
    max_seen,            \* history: highest score of any current assignment
    twin,                \* a second solve of the same allocator with the same seed
    preferences_df       \* the rows of the Preferences sheet that process_preferences reads

vars == <<num_tables, table_size, people, adj, named, calls, pc, max_iterations,
          initial_temperature, min_temperature, initial_solution,
          current_solution, current_score, best_solution, best_score,
          neighbor, temperature, accepted_moves, window_size, temp_history,
          iteration, result, raised, max_seen, twin, preferences_df>>

allocator_vars == <<num_tables, table_size, people, adj, named>>

solve_vars == <<max_iterations, initial_temperature, min_temperature,
                initial_solution, current_solution, current_score,
                best_solution, best_score, neighbor, temperature,
                accepted_moves, window_size, temp_history, iteration, result,
                raised, max_seen>>

\* ---- helpers -------------------------------------------------------------
RECURSIVE SumFn(_)
SumFn(f) ==
    IF DOMAIN f = {} THEN 0
    ELSE LET x == CHOOSE y \in DOMAIN f : TRUE
         IN  f[x] + SumFn([y \in (DOMAIN f) \ {x} |-> f[y]])

RECURSIVE Gcd(_, _)
Gcd(a, b) == IF b = 0 THEN a ELSE Gcd(b, a % b)

\* a fraction in lowest terms
Frac(n, d) == LET g == Gcd(n, d) IN <<n \div g, d \div g>>

\* every order in which a set can be listed
Perms(S) ==
    {f \in [1..Cardinality(S) -> S] : \A i, j \in DOMAIN f : i # j => f[i] # f[j]}

NoTables == [i \in {} |-> {}]

NoEdges == [q \in {} |-> 0]

\* the second solve before it starts
NoTwin ==
    [pc |-> "idle", current_solution |-> NoTables, current_score |-> 0,
     best_solution |-> NoTables, best_score |-> 0, temperature |-> <<0, 1>>,
     accepted_moves |-> <<>>, temp_history |-> <<>>, iteration |-> 0,
     result |-> NoTables]

\* ---- the preference graph ------------------------------------------------
has_edge(g, a, b) == <<a, b>> \in DOMAIN g

\* the weight added to the weight the edge already has
add_edge_accumulate(g, u, v, w) ==
    [q \in (DOMAIN g) \cup {<<u, v>>, <<v, u>>} |->
        IF q \in {<<u, v>>, <<v, u>>}
        THEN (IF q \in DOMAIN g THEN g[q] + w ELSE w) ELSE g[q]]

\* nx.Graph.add_edge(u, v, weight=w): one undirected edge, stored both ways
add_edge(g, u, v, w) ==
    [q \in (DOMAIN g) \cup {<<u, v>>, <<v, u>>} |->
        IF q \in {<<u, v>>, <<v, u>>} THEN w ELSE g[q]]

RECURSIVE AddEdges(_, _, _, _)
AddEdges(g, person, prefs, w) ==
    IF prefs = {} THEN g
    ELSE LET pref == CHOOSE p \in prefs : TRUE
         IN  AddEdges(add_edge(g, person, pref, w), person, prefs \ {pref}, w)

\* ---- scoring -------------------------------------------------------------
\* core.py: ordered pairs person1 < person2, each edge added once
calculate_satisfaction_score(g, tables) ==
    SumFn([i \in DOMAIN tables |->
        SumFn([q \in {r \in tables[i] \X tables[i] :
                        r[1] < r[2] /\ has_edge(g, r[1], r[2])} |-> g[q]])])

\* the double sum without the halving: every pair counted twice
calculate_satisfaction_score_doubled(g, tables) ==
    SumFn([i \in DOMAIN tables |->
        SumFn([q \in {r \in tables[i] \X tables[i] :
                        r[1] # r[2] /\ has_edge(g, r[1], r[2])} |-> g[q]])])

\* table_allocation.py: every ordered pair person # other, the sum halved
calculate_satisfaction_score_halved(g, tables) ==
    SumFn([i \in DOMAIN tables |->
        SumFn([q \in {r \in tables[i] \X tables[i] :
                        r[1] # r[2] /\ has_edge(g, r[1], r[2])} |-> g[q]])]) \div 2

\* sum of person's edge weights to the occupants of one table
WeightTo(g, person, table) ==
    SumFn([other \in {o \in table : has_edge(g, person, o)} |-> g[<<person, other>>]])

\* table_allocation.py: _try_swap
try_swap(g, tables, person1, table1_idx, person2, table2_idx) ==
    LET cur == WeightTo(g, person1, tables[table1_idx])
               + WeightTo(g, person2, tables[table2_idx])
        new == WeightTo(g, person1, tables[table2_idx])
               + WeightTo(g, person2, tables[table1_idx])
    IN  new - cur

\* ---- solution generator --------------------------------------------------
RECURSIVE FillTables(_, _, _, _, _)
FillTables(tables, table_idx, person_idx, people_list, ts) ==
    IF table_idx \notin DOMAIN tables THEN tables
    ELSE IF Cardinality(tables[table_idx]) < ts /\ person_idx < Len(people_list)
         THEN FillTables([tables EXCEPT ![table_idx] = @ \cup {people_list[person_idx + 1]}],
                         table_idx, person_idx + 1, people_list, ts)
         ELSE FillTables(tables, table_idx + 1, person_idx, people_list, ts)

\* the fill started one person too far: the first of the list is never seated
generate_initial_solution_skip_first(people_list, nt, ts) ==
    FillTables([i \in 0..(nt - 1) |-> {}], 0, 1, people_list, ts)

\* _generate_initial_solution, people_list being the shuffled list
generate_initial_solution(people_list, nt, ts) ==
    FillTables([i \in 0..(nt - 1) |-> {}], 0, 0, people_list, ts)

\* _get_random_swap_candidates: the tuples the two retry loops can end with
SwapCandidates(tables) ==
    {c \in (DOMAIN tables) \X People \X (DOMAIN tables) \X People :
        /\ tables[c[1]] # {} /\ c[2] \in tables[c[1]]
        /\ c[3] # c[1] /\ tables[c[3]] # {} /\ c[4] \in tables[c[3]]}

\* person1 moved to the other table and person2 left where it was
perform_swap_move_only(tables, table1_idx, person1, table2_idx, person2) ==
    [tables EXCEPT ![table1_idx] = @ \ {person1},
                   ![table2_idx] = @ \cup {person1}]

\* the swap without the removal of person1 from its table
perform_swap_keep_person1(tables, table1_idx, person1, table2_idx, person2) ==
    [tables EXCEPT ![table1_idx] = @ \cup {person2},
                   ![table2_idx] = (@ \ {person2}) \cup {person1}]

\* _generate_neighbor: the swap performed on the copied tables
perform_swap(tables, table1_idx, person1, table2_idx, person2) ==
    [tables EXCEPT ![table1_idx] = (@ \ {person1}) \cup {person2},
                   ![table2_idx] = (@ \ {person2}) \cup {person1}]

\* only the first table copied: the second table of the swap is the set
\* of the caller's list
generate_neighbor_partial_copy(tables, c) ==
    [input |-> [tables EXCEPT ![c[3]] = (@ \ {c[4]}) \cup {c[2]}],
     neighbor |-> perform_swap(tables, c[1], c[2], c[3], c[4])]

\* the swap performed on the sets of the caller's list, no copy taken
generate_neighbor_in_place(tables, c) ==
    [input |-> perform_swap(tables, c[1], c[2], c[3], c[4]),
     neighbor |-> perform_swap(tables, c[1], c[2], c[3], c[4])]

\* _generate_neighbor with the candidates c that were drawn: line 131 copies
\* every table, lines 135-138 change the copies.  input is the caller's list
\* as the call leaves it, neighbor the list returned
generate_neighbor(tables, c) ==
    [input |-> tables,
     neighbor |-> perform_swap(tables, c[1], c[2], c[3], c[4])]

\* ---- temperature ---------------------------------------------------------
WindowSize == 100

LastMoves(moves, n) == SubSeq(moves, Len(moves) - n + 1, Len(moves))

SeqSum(s) == SumFn([i \in DOMAIN s |-> s[i]])

Below(t, x) == t[1] < x * t[2]

\* the policy of table_allocation.py: nothing until the window is full, a
\* reheat by 1.5, and a cooling by 0.99 between the two thresholds
adjust_temperature_legacy(t, moves, window, t0) ==
    LET acc == SeqSum(LastMoves(moves, window))
    IN  IF Len(moves) < window THEN t
        ELSE IF acc * 10 > 3 * window THEN Frac(t[1] * 19, t[2] * 20)
        ELSE IF acc * 10 < window
             THEN IF t[1] * 3 <= t0 * t[2] * 2
                  THEN Frac(t[1] * 3, t[2] * 2) ELSE <<t0, 1>>
        ELSE Frac(t[1] * 99, t[2] * 100)

\* the reheat without its cap
adjust_temperature_uncapped(t, moves, window, t0) ==
    LET ew == IF window < Len(moves) THEN window ELSE Len(moves)
        acc == SeqSum(LastMoves(moves, ew))
    IN  IF ew = 0 THEN t
        ELSE IF acc * 10 > 3 * ew THEN Frac(t[1] * 19, t[2] * 20)
        ELSE IF acc * 10 < ew THEN Frac(t[1] * 11, t[2] * 10)
        ELSE t

\* the rate taken over the latest outcome alone
adjust_temperature_latest_outcome(t, moves, window, t0) ==
    LET ew == IF 1 < Len(moves) THEN 1 ELSE Len(moves)
        acc == SeqSum(LastMoves(moves, ew))
    IN  IF ew = 0 THEN t
        ELSE IF acc * 10 > 3 * ew THEN Frac(t[1] * 19, t[2] * 20)
        ELSE IF acc * 10 < ew
             THEN IF t[1] * 11 <= t0 * t[2] * 10
                  THEN Frac(t[1] * 11, t[2] * 10) ELSE <<t0, 1>>
        ELSE t

\* _adjust_temperature with target_acceptance_rate 0.3, reheat_threshold 0.1
adjust_temperature(t, moves, window, t0) ==
    LET ew == IF window < Len(moves) THEN window ELSE Len(moves)
        acc == SeqSum(LastMoves(moves, ew))
    IN  IF ew = 0 THEN t
        ELSE IF acc * 10 > 3 * ew THEN Frac(t[1] * 19, t[2] * 20)
        ELSE IF acc * 10 < ew
             THEN IF t[1] * 11 <= t0 * t[2] * 10
                  THEN Frac(t[1] * 11, t[2] * 10) ELSE <<t0, 1>>
        ELSE t

\* every move left to the draw, the improving ones too
Accepts_by_draw(delta, lucky) == lucky

\* line 76: delta > 0 or random.random() < math.exp(delta / temperature);
\* random.random() < 1.0 always, so delta = 0 is accepted; for delta < 0 the
\* draw decides (lucky)
Accepts(delta, lucky) == delta > 0 \/ delta = 0 \/ lucky

\* the trace that starts with the initial temperature
InitialHistory_seeded(t0) == << <<t0, 1>> >>

\* line 62: the trace before the first pass
InitialHistory(t0) == <<>>

\* the best score updated and the best assignment left as it was
BestAfter_score_only(best, bscore, cur, cscore) ==
    IF cscore > bscore THEN <<best, cscore>> ELSE <<best, bscore>>

\* the best assignment overwritten by every accepted move
BestAfter_latest(best, bscore, cur, cscore) == <<cur, cscore>>

\* the comparison of line 82 reversed
BestAfter_reversed(best, bscore, cur, cscore) ==
    IF cscore < bscore THEN <<cur, cscore>> ELSE <<best, bscore>>

\* lines 82-84: the best assignment and score after an accepted move
BestAfter(best, bscore, cur, cscore) ==
    IF cscore > bscore THEN <<cur, cscore>> ELSE <<best, bscore>>

\* the tables numbered from 1
enumerate_result_from_one(best) == [i \in {j + 1 : j \in DOMAIN best} |-> best[i - 1]]

\* line 99
enumerate_result(best) == [i \in DOMAIN best |-> best[i]]

Max(a, b) == IF a >= b THEN a ELSE b

\* ---- the allocator -------------------------------------------------------
Init ==
    /\ num_tables \in NumTablesChoices
    /\ table_size \in TableSizeChoices
    /\ people = {}
    /\ adj = NoEdges
    /\ named = NoEdges
    /\ calls = 0
    /\ pc = "idle"
    /\ max_iterations = 0
    /\ initial_temperature = 0
    /\ min_temperature = 0
    /\ initial_solution = NoTables
    /\ current_solution = NoTables
    /\ current_score = 0
    /\ best_solution = NoTables
    /\ best_score = 0
    /\ neighbor = NoTables
    /\ temperature = <<0, 1>>
    /\ accepted_moves = <<>>
    /\ window_size = 0
    /\ temp_history = <<>>
    /\ iteration = 0
    /\ result = NoTables
    /\ raised = "none"
    /\ max_seen = 0
    /\ twin = NoTwin
    /\ preferences_df = <<>>

\* add_preference(person, preferences, weight)
AddPreferenceStep(person, prefs, weight) ==
    /\ pc = "idle"
    /\ calls < MaxCalls
    /\ calls' = calls + 1
    /\ people' = people \cup {person} \cup prefs
    /\ adj' = AddEdges(adj, person, prefs, weight)
    /\ UNCHANGED <<num_tables, table_size, pc, twin, preferences_df>>
    /\ UNCHANGED solve_vars

AddPreference(person, prefs, weight) ==
    AddPreferenceStep(person, prefs, weight) /\ UNCHANGED named

\* a fill that takes the people it seats out of self.people
people_after_fill_drained(ps, init) == ps \ UNION {init[i] : i \in DOMAIN init}

\* line 107: the fill works on list(self.people), a copy, so self.people is
\* after the fill what it was before
people_after_fill(ps, init) == ps

\* solve_with_simulated_annealing, lines 52-62
SolveStep(mi, t0, tmin, people_list) ==
    /\ pc = "idle"
    /\ LET init == generate_initial_solution(people_list, num_tables, table_size)
           score == calculate_satisfaction_score(adj, init)
       IN  /\ initial_solution' = init
           /\ current_solution' = init
           /\ current_score' = score
           /\ best_solution' = init
           /\ best_score' = score
           /\ max_seen' = score
    /\ max_iterations' = mi
    /\ initial_temperature' = t0
    /\ min_temperature' = tmin
    /\ temperature' = <<t0, 1>>
    /\ accepted_moves' = <<>>
    /\ window_size' = WindowSize
    /\ temp_history' = InitialHistory(t0)
    /\ iteration' = 0
    /\ pc' = "loop"
    /\ people' = people_after_fill(people, initial_solution')
    /\ UNCHANGED <<neighbor, result, raised, calls>>
    /\ UNCHANGED <<num_tables, table_size, adj, named, preferences_df>>

\* the loop without the test of lines 65-66
LoopRuns_no_floor ==
    /\ pc = "loop"
    /\ iteration < max_iterations

LoopRuns ==
    /\ pc = "loop"
    /\ iteration < max_iterations
    /\ ~Below(temperature, min_temperature)

\* one pass of the loop, lines 64-96
IterateStep(c, lucky) ==
    /\ LoopRuns
    /\ c \in SwapCandidates(current_solution)
    /\ LET g == generate_neighbor(current_solution, c)
           nb == g.neighbor
           nscore == calculate_satisfaction_score(adj, nb)
           delta == nscore - current_score
           acc == Accepts(delta, lucky)
           moves == Append(accepted_moves, IF acc THEN 1 ELSE 0)
           t == adjust_temperature(temperature, moves, window_size, initial_temperature)
           b == BestAfter(best_solution, best_score, nb, nscore)
       IN  /\ neighbor' = nb
           /\ current_solution' = IF acc THEN nb ELSE g.input
           /\ current_score' = IF acc THEN nscore ELSE current_score
           /\ best_solution' = IF acc THEN b[1] ELSE best_solution
           /\ best_score' = IF acc THEN b[2] ELSE best_score
           /\ accepted_moves' = moves
           /\ temperature' = t
           /\ temp_history' = Append(temp_history, t)
           /\ max_seen' = Max(max_seen,
                  calculate_satisfaction_score(adj, IF acc THEN nb ELSE g.input))
    /\ iteration' = iteration + 1
    /\ UNCHANGED <<pc, max_iterations, initial_temperature, min_temperature,
                   initial_solution, window_size, result, raised, calls>>
    /\ UNCHANGED <<allocator_vars, preferences_df>>

\* lines 145/151: random.randrange(self.num_tables) with num_tables <= 0
RaiseValueError ==
    /\ LoopRuns
    /\ num_tables <= 0
    /\ pc' = "error"
    /\ raised' = "ValueError"
    /\ UNCHANGED <<max_iterations, initial_temperature, min_temperature,
                   initial_solution, current_solution, current_score,
                   best_solution, best_score, neighbor, temperature,
                   accepted_moves, window_size, temp_history, iteration, result,
                   max_seen, calls>>
    /\ UNCHANGED <<allocator_vars, preferences_df>>
    /\ UNCHANGED twin

\* lines 146-147 and 152-153: no draw can end the retry loops
HangStep ==
    /\ LoopRuns
    /\ num_tables >= 1
    /\ SwapCandidates(current_solution) = {}
    /\ pc' = "hang"
    /\ UNCHANGED <<max_iterations, initial_temperature, min_temperature,
                   initial_solution, current_solution, current_score,
                   best_solution, best_score, neighbor, temperature,
                   accepted_moves, window_size, temp_history, iteration, result,
                   raised, max_seen, calls>>
    /\ UNCHANGED <<allocator_vars, preferences_df>>

\* lines 64-66 and 98-103: the loop ends and the best assignment is returned
ReturnStep ==
    /\ pc = "loop"
    /\ ~LoopRuns
    /\ result' = enumerate_result(best_solution)
    /\ pc' = "done"
    /\ UNCHANGED <<max_iterations, initial_temperature, min_temperature,
                   initial_solution, current_solution, current_score,
                   best_solution, best_score, neighbor, temperature,
                   accepted_moves, window_size, temp_history, iteration, raised,
                   max_seen, calls>>
    /\ UNCHANGED <<allocator_vars, preferences_df>>

\* ---- a single solve ------------------------------------------------------
Solve(mi, t0, tmin, people_list) == SolveStep(mi, t0, tmin, people_list) /\ UNCHANGED twin

Iterate(c, lucky) == IterateStep(c, lucky) /\ UNCHANGED twin

Hang == HangStep /\ UNCHANGED twin

Return == ReturnStep /\ UNCHANGED twin

Next ==
    \/ \E person \in People, prefs \in PreferenceLists, weight \in Weights :
          AddPreference(person, prefs, weight)
    \/ \E people_list \in Perms(people) :
          \E mi \in MaxIterationsChoices, t0 \in InitialTemperatureChoices,
             tmin \in MinTemperatureChoices :
              Solve(mi, t0, tmin, people_list)
    \/ \E c \in SwapCandidates(current_solution), lucky \in BOOLEAN :
          Iterate(c, lucky)
    \/ RaiseValueError
    \/ Hang
    \/ Return

Spec == Init /\ [][Next]_vars


\* ---- two solves with the same seed ---------------------------------------
\* The twin is a second solve of an allocator built by the same calls, run
\* with the same arguments and the same random_seed.  The seed fixes every
\* value the random module returns: the index permutation of shuffle, the
\* table numbers of randrange, the positions taken by choice and the floats
\* of random().  It does not fix the order in which list(a_set) lists the
\* people (lines 107, 148, 154): for strings that order follows the hash
\* seed of the interpreter process, so each solve has its own listing.

\* lines 55-62 for the twin
TwinStart(people_list) ==
    LET init == generate_initial_solution(people_list, num_tables, table_size)
        score == calculate_satisfaction_score(adj, init)
    IN  [pc |-> "loop", current_solution |-> init, current_score |-> score,
         best_solution |-> init, best_score |-> score,
         temperature |-> <<initial_temperature', 1>>, accepted_moves |-> <<>>,
         temp_history |-> InitialHistory(initial_temperature'), iteration |-> 0,
         result |-> NoTables]

TwinLoopRuns ==
    /\ twin.pc = "loop"
    /\ twin.iteration < max_iterations
    /\ ~Below(twin.temperature, min_temperature)

TwinDelta(c) ==
    calculate_satisfaction_score(adj,
        perform_swap(twin.current_solution, c[1], c[2], c[3], c[4]))
      - twin.current_score

RunDelta(c) ==
    calculate_satisfaction_score(adj,
        perform_swap(current_solution, c[1], c[2], c[3], c[4]))
      - current_score

\* lines 64-96 for the twin
TwinIterate(c, lucky) ==
    LET g == generate_neighbor(twin.current_solution, c)
        nb == g.neighbor
        nscore == calculate_satisfaction_score(adj, nb)
        acc == Accepts(nscore - twin.current_score, lucky)
        moves == Append(twin.accepted_moves, IF acc THEN 1 ELSE 0)
        t == adjust_temperature(twin.temperature, moves, window_size, initial_temperature)
        b == BestAfter(twin.best_solution, twin.best_score, nb, nscore)
    IN  [twin EXCEPT !.current_solution = IF acc THEN nb ELSE g.input,
                     !.current_score = IF acc THEN nscore ELSE @,
                     !.best_solution = IF acc THEN b[1] ELSE @,
                     !.best_score = IF acc THEN b[2] ELSE @,
                     !.accepted_moves = moves,
                     !.temperature = t,
                     !.temp_history = Append(@, t),
                     !.iteration = @ + 1]

\* both solves start: same arguments, each with its own listing of people
PairSolve(mi, t0, tmin, people_list, twin_list) ==
    /\ SolveStep(mi, t0, tmin, people_list)
    /\ twin' = TwinStart(twin_list)

\* both solves make a pass: the same table numbers are drawn, the occupant
\* at the drawn position depends on each solve's listing; the same float
\* decides the same way when delta and temperature agree
PairIterate(c, lucky) ==
    /\ TwinLoopRuns
    /\ IterateStep(c, lucky)
    /\ \E twin_c \in SwapCandidates(twin.current_solution), twin_lucky \in BOOLEAN :
          /\ twin_c[1] = c[1] /\ twin_c[3] = c[3]
          /\ (TwinDelta(twin_c) = RunDelta(c) /\ twin.temperature = temperature)
                => twin_lucky = lucky
          /\ twin' = TwinIterate(twin_c, twin_lucky)

\* the first solve has returned and the twin makes a further pass
TwinIterateAlone(c, lucky) ==
    /\ pc = "done"
    /\ TwinLoopRuns
    /\ c \in SwapCandidates(twin.current_solution)
    /\ twin' = TwinIterate(c, lucky)
    /\ UNCHANGED <<calls, pc>>
    /\ UNCHANGED <<allocator_vars, preferences_df>>
    /\ UNCHANGED solve_vars

\* the twin has returned and the first solve makes a further pass
IterateAlone(c, lucky) == twin.pc = "done" /\ Iterate(c, lucky)

\* both solves are caught in the retry loops
PairHang ==
    /\ TwinLoopRuns
    /\ HangStep
    /\ twin' = [twin EXCEPT !.pc = "hang"]

TwinReturn ==
    /\ twin.pc = "loop"
    /\ ~TwinLoopRuns
    /\ twin' = [twin EXCEPT !.pc = "done",
                            !.result = enumerate_result(twin.best_solution)]
    /\ UNCHANGED <<calls, pc>>
    /\ UNCHANGED <<allocator_vars, preferences_df>>
    /\ UNCHANGED solve_vars

PairInit == Init /\ num_tables >= 1 /\ table_size >= 1

PairNext ==
    \/ \E person \in People, prefs \in PreferenceLists, weight \in Weights :
          AddPreference(person, prefs, weight)
    \/ \E people_list \in Perms(people), twin_list \in Perms(people) :
          \E mi \in MaxIterationsChoices, t0 \in InitialTemperatureChoices,
             tmin \in MinTemperatureChoices :
              PairSolve(mi, t0, tmin, people_list, twin_list)
    \/ \E c \in SwapCandidates(current_solution), lucky \in BOOLEAN :
          PairIterate(c, lucky)
    \/ \E c \in SwapCandidates(current_solution), lucky \in BOOLEAN :
          IterateAlone(c, lucky)
    \/ \E c \in SwapCandidates(twin.current_solution), lucky \in BOOLEAN :
          TwinIterateAlone(c, lucky)
    \/ PairHang
    \/ Return
    \/ TwinReturn

PairSpec == PairInit /\ [][PairNext]_vars

\* C9: two solves with identical configuration, preferences and random_seed
\* return identical assignments and identical temperature traces
C9_SeedDeterminism ==
    (pc = "done" /\ twin.pc = "done") =>
        /\ result = twin.result
        /\ temp_history = twin.temp_history

\* ---- properties ----------------------------------------------------------
Started == pc \in {"loop", "done", "hang", "error"}

ValidConfiguration == num_tables >= 1 /\ table_size >= 1

Capacity == num_tables * table_size

Min(a, b) == IF a <= b THEN a ELSE b

Seated(tables) == UNION {tables[i] : i \in DOMAIN tables}

Seats(tables) == SumFn([i \in DOMAIN tables |-> Cardinality(tables[i])])

NonEmptyTables(tables) == {i \in DOMAIN tables : tables[i] # {}}

PairwiseDisjoint(tables) ==
    \A i, j \in DOMAIN tables : i # j => tables[i] \cap tables[j] = {}

WithinCapacity(tables) ==
    \A i \in DOMAIN tables : Cardinality(tables[i]) <= table_size

\* the assignments a run holds: the current one, the best one, the last
\* neighbor and, once returned, the result
HeldAssignments ==
    {initial_solution, current_solution, best_solution, neighbor}
        \cup (IF pc = "done" THEN {result} ELSE {})

\* C1: at every iteration and in the returned assignment the tables are
\* pairwise disjoint and no table holds more than table_size people (a
\* negative table_size, which no table can respect, is left to C6)
C1_Partition ==
    Started =>
        \A tables \in HeldAssignments :
            /\ PairwiseDisjoint(tables)
            /\ table_size >= 0 => WithinCapacity(tables)

\* a run that made two passes between two occupied tables and returned
C1_Witness ==
    /\ pc = "done" /\ iteration >= 2
    /\ Cardinality(NonEmptyTables(result)) >= 2
    /\ \E i \in DOMAIN result : Cardinality(result[i]) = table_size
    /\ neighbor # current_solution

\* C2: with num_tables >= 1 and table_size >= 1 the initial fill and the
\* returned assignment seat exactly min(registered people, total capacity)
\* people; more people than seats is not an error, the excess is unseated
C2_Conservation ==
    (Started /\ ValidConfiguration) =>
        /\ Seats(initial_solution) = Min(Cardinality(people), Capacity)
        /\ Cardinality(Seated(initial_solution)) = Min(Cardinality(people), Capacity)
        /\ Seated(initial_solution) \subseteq people
        /\ raised = "none"
        /\ pc = "done" =>
              /\ Seats(result) = Min(Cardinality(people), Capacity)
              /\ Cardinality(Seated(result)) = Min(Cardinality(people), Capacity)

\* more registered people than seats, and the run iterated and returned
C2_Witness ==
    /\ pc = "done" /\ ValidConfiguration /\ iteration >= 1
    /\ Cardinality(people) > Capacity
    /\ people \ Seated(result) # {}

\* C3: the returned assignment scores the maximum of the scores of the
\* initial assignment and of every assignment that was current
C3_ReturnsBest ==
    /\ Started => /\ calculate_satisfaction_score(adj, best_solution) = max_seen
                  /\ best_score = max_seen
    /\ pc = "done" => calculate_satisfaction_score(adj, result) = max_seen

\* the final current assignment regressed below the returned one
C3_Witness ==
    /\ pc = "done" /\ iteration >= 1
    /\ calculate_satisfaction_score(adj, current_solution) < max_seen
    /\ calculate_satisfaction_score(adj, result) = max_seen
    /\ result # current_solution

\* the score change of a two-person exchange, by rescoring both assignments
ScoreChange(tables, c) ==
    calculate_satisfaction_score_halved(adj, perform_swap(tables, c[1], c[2], c[3], c[4]))
        - calculate_satisfaction_score_halved(adj, tables)

\* C4: for every pair of people at different tables the delta of _try_swap
\* equals score(after the exchange) - score(before), also when the two
\* share a preference edge
C4_SwapDelta ==
    Started =>
        \A c \in SwapCandidates(current_solution) :
            try_swap(adj, current_solution, c[2], c[1], c[4], c[3])
                = ScoreChange(current_solution, c)

\* the weight of the edge between the two people of an unordered pair
PairWeight(g, pair) ==
    LET a == CHOOSE x \in pair : TRUE
        b == CHOOSE y \in pair \ {a} : TRUE
    IN  g[<<a, b>>]

\* the sum over every table and every unordered pair of distinct co-seated
\* people with an edge, of the edge's weight
UnorderedPairSum(g, tables) ==
    SumFn([i \in DOMAIN tables |->
        SumFn([pair \in {s \in SUBSET tables[i] :
                            /\ Cardinality(s) = 2
                            /\ \E a, b \in s : a # b /\ has_edge(g, a, b)}
               |-> PairWeight(g, pair)])])

\* every way of putting registered people at the configured tables
AllAssignments == [0..(num_tables - 1) -> SUBSET people]

\* C5: both score implementations return the sum over unordered co-seated
\* pairs with an edge, each pair once, and so agree on every assignment
C5_ScoreIsPairSum ==
    /\ pc = "idle" =>
          \A tables \in AllAssignments :
              /\ calculate_satisfaction_score(adj, tables) = UnorderedPairSum(adj, tables)
              /\ calculate_satisfaction_score_halved(adj, tables) = UnorderedPairSum(adj, tables)
    /\ Started =>
          \A tables \in HeldAssignments :
              /\ calculate_satisfaction_score(adj, tables) = UnorderedPairSum(adj, tables)
              /\ calculate_satisfaction_score_halved(adj, tables) = UnorderedPairSum(adj, tables)

\* two people with an edge of weight 2 share a table, one of them also has
\* a self-edge, and a second edge is split between tables
C5_Witness ==
    /\ pc = "loop"
    /\ \E i \in DOMAIN current_solution : \E a, b \in current_solution[i] :
          /\ a # b /\ has_edge(adj, a, b) /\ adj[<<a, b>>] = 2
          /\ has_edge(adj, a, a) \/ has_edge(adj, b, b)
    /\ calculate_satisfaction_score(adj, current_solution) = 2

\* C6: with num_tables <= 0 or table_size <= 0 the call ends with an
\* InvalidConfiguration error and nothing else: it does not hang, does not
\* raise another error and does not return an assignment
C6_FailFast ==
    ((num_tables <= 0 \/ table_size <= 0) /\ pc \in {"done", "hang", "error"}) =>
        /\ pc = "error"
        /\ raised = "InvalidConfiguration"

\* C7: with a valid configuration, max_iterations >= 1 and fewer than two
\* non-empty tables after the initial fill, the swap-candidate search does
\* not retry forever and the run returns the initial tables unchanged
C7_NoHang ==
    (/\ Started /\ ValidConfiguration /\ max_iterations >= 1
     /\ Cardinality(NonEmptyTables(initial_solution)) < 2) =>
        /\ pc # "hang"
        /\ pc = "done" => result = initial_solution

C10_CompleteAllocation ==
    (/\ pc = "done" /\ num_tables >= 0 /\ table_size >= 0
     /\ Capacity >= Cardinality(people)) =>
        /\ DOMAIN result = 0..(num_tables - 1)
        /\ Cardinality(DOMAIN result) = num_tables
        /\ Seated(result) = people
        /\ Seats(result) = Cardinality(people)

\* three people at two tables of two, returned after iterating
C10_Witness ==
    /\ pc = "done" /\ iteration >= 1
    /\ num_tables = 2 /\ Cardinality(people) = 3
    /\ Capacity >= Cardinality(people)
    /\ result # initial_solution

\* ---- the calls of add_preference on their own ---------------------------
\* Only add_preference is called, with preference lists of any length, and
\* the calls that named two people are kept.

\* the call is added to the history of every pair it names
NamedAfter(person, prefs, weight) ==
    [pair \in (DOMAIN named) \cup {{person, pref} : pref \in prefs} |->
        IF \E pref \in prefs : pair = {person, pref}
        THEN IF pair \in DOMAIN named
             THEN Append(named[pair], <<person, weight>>)
             ELSE << <<person, weight>> >>
        ELSE named[pair]]

RecordedAddPreference(person, prefs, weight) ==
    /\ AddPreferenceStep(person, prefs, weight)
    /\ named' = NamedAfter(person, prefs, weight)

GraphInit == Init /\ num_tables = 2 /\ table_size = 2

GraphNext ==
    \E person \in People, prefs \in SUBSET People, weight \in Weights :
        RecordedAddPreference(person, prefs, weight)

GraphSpec == GraphInit /\ [][GraphNext]_vars

\* ---- the temperature policy on its own ----------------------------------
\* Lines 76-96 of the loop with the outcome of the acceptance test left open:
\* every sequence of accepted (1) and rejected (0) moves up to MaxMoves, for
\* each window size.

PolicyInit ==
    /\ num_tables = 2
    /\ table_size = 2
    /\ people = {}
    /\ adj = NoEdges
    /\ named = NoEdges
    /\ calls = 0
    /\ pc = "loop"
    /\ max_iterations = MaxMoves
    /\ initial_temperature \in InitialTemperatureChoices
    /\ min_temperature = 0
    /\ initial_solution = NoTables
    /\ current_solution = NoTables
    /\ current_score = 0
    /\ best_solution = NoTables
    /\ best_score = 0
    /\ neighbor = NoTables
    /\ temperature = <<initial_temperature, 1>>
    /\ accepted_moves = <<>>
    /\ window_size \in WindowSizeChoices
    /\ temp_history = InitialHistory(initial_temperature)
    /\ iteration = 0
    /\ result = NoTables
    /\ raised = "none"
    /\ max_seen = 0
    /\ twin = NoTwin
    /\ preferences_df = <<>>

\* lines 79/86 and 89-96: the outcome is recorded and the temperature adapted
RecordMove(outcome) ==
    /\ iteration < max_iterations
    /\ accepted_moves' = Append(accepted_moves, outcome)
    /\ temperature' = adjust_temperature(temperature, accepted_moves',
                                         window_size, initial_temperature)
    /\ temp_history' = Append(temp_history, temperature')
    /\ iteration' = iteration + 1
    /\ UNCHANGED <<calls, pc, max_iterations, initial_temperature, min_temperature,
                   initial_solution, current_solution, current_score,
                   best_solution, best_score, neighbor, window_size, result,
                   raised, max_seen, twin>>
    /\ UNCHANGED <<allocator_vars, preferences_df>>

PolicyNext == \E outcome \in {0, 1} : RecordMove(outcome)

PolicySpec == PolicyInit /\ [][PolicyNext]_vars

\* ---- _generate_neighbor on its own ---------------------------------------
\* The calls of _generate_neighbor on the assignments a run can hold: every
\* initial fill of two or three tables, and every assignment reached from
\* one by taking neighbors.

NeighborInit ==
    /\ num_tables \in {2, 3}
    /\ table_size \in {1, 2}
    /\ people \in SUBSET People
    /\ adj = NoEdges
    /\ named = NoEdges
    /\ calls = 0
    /\ pc = "loop"
    /\ max_iterations = MaxIter
    /\ initial_temperature = 0
    /\ min_temperature = 0
    /\ initial_solution \in {generate_initial_solution(people_list, num_tables, table_size) :
                                people_list \in Perms(people)}
    /\ current_solution = initial_solution
    /\ current_score = 0
    /\ best_solution = initial_solution
    /\ best_score = 0
    /\ neighbor = NoTables
    /\ temperature = <<0, 1>>
    /\ accepted_moves = <<>>
    /\ window_size = 0
    /\ temp_history = <<>>
    /\ iteration = 0
    /\ result = NoTables
    /\ raised = "none"
    /\ max_seen = 0
    /\ twin = NoTwin
    /\ preferences_df = <<>>

\* line 69: neighbor = self._generate_neighbor(current_solution)
GenerateNeighbor(c) ==
    /\ iteration < max_iterations
    /\ c \in SwapCandidates(current_solution)
    /\ LET g == generate_neighbor(current_solution, c)
       IN  /\ current_solution' = g.input
           /\ neighbor' = g.neighbor
    /\ iteration' = iteration + 1
    /\ UNCHANGED <<calls, pc, max_iterations, initial_temperature, min_temperature,
                   initial_solution, current_score, best_solution, best_score,
                   temperature, accepted_moves, window_size, temp_history,
                   result, raised, max_seen, twin>>
    /\ UNCHANGED <<allocator_vars, preferences_df>>

\* line 77: current_solution = neighbor
TakeNeighbor ==
    /\ neighbor # NoTables
    /\ neighbor # current_solution
    /\ current_solution' = neighbor
    /\ UNCHANGED <<calls, pc, max_iterations, initial_temperature, min_temperature,
                   initial_solution, current_score, best_solution, best_score,
                   neighbor, temperature, accepted_moves, window_size,
                   temp_history, iteration, result, raised, max_seen, twin>>
    /\ UNCHANGED <<allocator_vars, preferences_df>>

NeighborNext ==
    \/ \E c \in SwapCandidates(current_solution) : GenerateNeighbor(c)
    \/ TakeNeighbor

NeighborSpec == NeighborInit /\ [][NeighborNext]_vars

\* C11: after any sequence of add_preference calls, for every two distinct
\* people the weight looked up as (a, b) equals the weight looked up as
\* (b, a), and both are the weight of the latest call that named the two, in
\* either direction; two people no call named have no edge
C11_LastWriteWins ==
    \A a, b \in People :
        a # b =>
            IF {a, b} \in DOMAIN named
            THEN /\ has_edge(adj, a, b) /\ has_edge(adj, b, a)
                 /\ adj[<<a, b>>] = adj[<<b, a>>]
                 /\ adj[<<a, b>>] = named[{a, b}][Len(named[{a, b}])][2]
            ELSE ~has_edge(adj, a, b) /\ ~has_edge(adj, b, a)

\* a named b with weight 2, then b named a with weight 1: both lookups give 1
C11_Witness ==
    \E a, b \in people :
        /\ a < b /\ {a, b} \in DOMAIN named
        /\ named[{a, b}] = << <<a, 2>>, <<b, 1>> >>
        /\ adj[<<a, b>>] = 1 /\ adj[<<b, a>>] = 1

\* C12: after any sequence of add_preference calls, also calls whose
\* preference list holds the person itself, the graph has no edge from a
\* person to itself
C12_NoSelfEdge == \A p \in People : ~has_edge(adj, p, p)

\* C13: a call that has two non-empty tables terminates after at most
\* max_iterations passes: the candidate search has a pair to find, every
\* step of the call is a pass that counts one or the return, never a hang or
\* an error, and the count never exceeds max_iterations.  No pass is made
\* while the temperature is below min_temperature; with
\* initial_temperature < min_temperature none is made and the initial
\* assignment is returned
C13_Terminates ==
    /\ [](Started => iteration <= max_iterations)
    /\ [](LoopRuns /\ Cardinality(NonEmptyTables(current_solution)) >= 2
            => SwapCandidates(current_solution) # {})
    /\ [](pc = "done" /\ initial_temperature < min_temperature
            => iteration = 0 /\ result = initial_solution)
    /\ [][pc = "loop" /\ Cardinality(NonEmptyTables(current_solution)) >= 2
            => pc' \in {"loop", "done"}]_vars
    /\ [][pc = "loop" /\ pc' = "loop"
            => /\ iteration' = iteration + 1
               /\ ~Below(temperature, min_temperature)]_vars

\* the first pass cooled the temperature below min_temperature and the call
\* returned with a pass of its budget unused
C13_Witness ==
    /\ pc = "done" /\ iteration = 1 /\ max_iterations = 2
    /\ Below(temperature, min_temperature)
    /\ Cardinality(NonEmptyTables(result)) >= 2

\* C14: the temperature trace has one entry per executed pass, the i-th
\* being the temperature after the adaptation of the i-th pass: the trace is
\* as long as the pass count, its last entry is the temperature the pass
\* ended with, and an entry once written is never changed or removed; a
\* call that makes no pass returns the empty trace
C14_TraceOnePerIteration ==
    /\ [](Started => Len(temp_history) = iteration)
    /\ [](Started /\ iteration >= 1 => temp_history[iteration] = temperature)
    /\ [][pc = "loop" =>
            \A i \in 1..Len(temp_history) :
                i <= Len(temp_history') /\ temp_history'[i] = temp_history[i]]_vars

\* a returned call of two passes whose trace holds two different temperatures
C14_Witness ==
    /\ pc = "done" /\ iteration = 2
    /\ Len(temp_history) = 2
    /\ temp_history[1] # temp_history[2]
    /\ temp_history[2] = temperature

\* a temperature lower than another
Less(a, b) == a[1] * b[2] < b[1] * a[2]

\* the outcomes the rate is taken over: the last min(window, moves so far)
RateWindow(moves, window) ==
    {i \in DOMAIN moves : i > Len(moves) - Min(window, Len(moves))}

\* C16: after each move, with r the accepted fraction of the last
\* min(window_size, moves so far) outcomes (window_size is 100 in the
\* solver): r > 0.3 multiplies the temperature by 0.95, r < 0.1 makes it
\* min(temperature * 1.1, initial_temperature), and 0.1 <= r <= 0.3 leaves it
\* unchanged; the new temperature is given by the previous one and the
\* window alone
C16_TemperaturePolicy ==
    [][iteration' = iteration + 1 =>
        LET w == RateWindow(accepted_moves', window_size)
            n == Cardinality(w)
            k == Cardinality({i \in w : accepted_moves'[i] = 1})
            cooled == Frac(temperature[1] * 95, temperature[2] * 100)
            reheated == Frac(temperature[1] * 110, temperature[2] * 100)
            cap == <<initial_temperature, 1>>
        IN  /\ n = Min(window_size, Len(accepted_moves'))
            /\ 10 * k > 3 * n => temperature' = cooled
            /\ 10 * k < n =>
                   temperature' = IF Less(cap, reheated) THEN cap ELSE reheated
            /\ (n <= 10 * k /\ 10 * k <= 3 * n) => temperature' = temperature]_vars

\* a window of 4 and the outcomes 1, 0, 0, 0, 0: three coolings, then the rate
\* 1/4 leaves the temperature as it is, then the first outcome has left the
\* window and the rate 0/4 reheats, where the rate over all five is 1/5
C16_Witness ==
    /\ window_size = 4
    /\ accepted_moves = <<1, 0, 0, 0, 0>>
    /\ Less(temp_history[3], temp_history[2])
    /\ temp_history[4] = temp_history[3]
    /\ Less(temp_history[4], temp_history[5])
    /\ Less(temp_history[5], <<initial_temperature, 1>>)

\* C18: the acceptance window never holds more than window_size outcomes
\* (100 in the solver): once it is full, recording a move evicts the oldest
C18_WindowBounded == Len(accepted_moves) <= window_size

\* C19: with initial_temperature > 0 the temperature is at every point of a
\* run above 0 and at most initial_temperature, and so is every entry of the
\* trace
C19_TemperatureRange ==
    initial_temperature > 0 =>
        \A t \in {temperature} \cup {temp_history[i] : i \in DOMAIN temp_history} :
            /\ t[1] > 0 /\ t[2] > 0
            /\ t[1] <= initial_temperature * t[2]

\* two coolings, a reheat that stays below initial_temperature, and a reheat
\* that the cap stops at initial_temperature
C19_Witness ==
    /\ initial_temperature > 0
    /\ window_size = 1
    /\ accepted_moves = <<1, 1, 0, 0>>
    /\ Less(temp_history[2], temp_history[3])
    /\ Less(temp_history[3], <<initial_temperature, 1>>)
    /\ temperature = <<initial_temperature, 1>>

\* the outcome recorded by the latest pass
LastOutcome(moves) == moves[Len(moves)]

\* C17: on every pass, with delta = score(neighbor) - score(current): a
\* neighbor with delta > 0 is accepted and becomes the current assignment;
\* a rejection is the work of the random test, which is reached with
\* delta <= 0 only (a rejected neighbor has delta < 0), and whenever
\* delta <= 0 the temperature dividing delta is positive, so the probability
\* exp(delta / temperature) lies in (0, 1]
C17_Acceptance ==
    [][(pc = "loop" /\ iteration' = iteration + 1) =>
        LET delta == calculate_satisfaction_score(adj, neighbor') - current_score
        IN  /\ delta > 0 =>
                   /\ LastOutcome(accepted_moves') = 1
                   /\ current_solution' = neighbor'
                   /\ current_score' = current_score + delta
            /\ LastOutcome(accepted_moves') = 0 =>
                   /\ delta < 0
                   /\ current_solution' = current_solution
                   /\ current_score' = current_score
            /\ delta <= 0 => temperature[1] > 0 /\ temperature[2] > 0]_vars

\* a first neighbor was rejected, so it had delta < 0, and a second one was
\* accepted with delta < 0: the current score is below the initial one
C17_Witness ==
    /\ Started
    /\ accepted_moves = <<0, 1>>
    /\ current_score < calculate_satisfaction_score(adj, initial_solution)

\* after is before with one occupant of each of two distinct non-empty tables
\* exchanged, every other table and occupant as before
OneExchange(before, after) ==
    /\ DOMAIN after = DOMAIN before
    /\ \E t1, t2 \in DOMAIN before :
          /\ t1 # t2
          /\ \E p1 \in before[t1], p2 \in before[t2] :
                /\ after[t1] = (before[t1] \ {p1}) \cup {p2}
                /\ after[t2] = (before[t2] \ {p2}) \cup {p1}
                /\ p1 \notin after[t1] /\ p2 \notin after[t2]
          /\ \A t \in DOMAIN before : t \notin {t1, t2} => after[t] = before[t]

\* C20: a call of _generate_neighbor leaves the assignment it is given as it
\* was and returns an assignment that differs from it by exactly one
\* exchange between two distinct non-empty tables
C20_NeighborIsOneExchange ==
    [][iteration' = iteration + 1 =>
        /\ current_solution' = current_solution
        /\ OneExchange(current_solution, neighbor')
        /\ neighbor' # current_solution]_vars

\* three occupied tables: the neighbor exchanged two occupants and left the
\* occupant of the third table where it was
C20_Witness ==
    /\ iteration >= 1 /\ num_tables = 3
    /\ Cardinality(NonEmptyTables(current_solution)) = 3
    /\ OneExchange(current_solution, neighbor)
    /\ \E t \in DOMAIN neighbor : neighbor[t] # {} /\ neighbor[t] = current_solution[t]

\* ---- the temperature trace of one run ------------------------------------
\* The loop of lines 64-96 with the window of the solver (100 outcomes) and
\* the outcome of the acceptance test left open, for up to MaxTrace passes.
\* min_temperature is 82, which a run falls below with its fifth cooling, so
\* the exact fractions stay within the integers of the model checker.

TraceInit ==
    /\ num_tables = 2
    /\ table_size = 2
    /\ people = {}
    /\ adj = NoEdges
    /\ named = NoEdges
    /\ calls = 0
    /\ pc = "loop"
    /\ max_iterations = MaxTrace
    /\ initial_temperature \in InitialTemperatureChoices
    /\ min_temperature = 82
    /\ initial_solution = NoTables
    /\ current_solution = NoTables
    /\ current_score = 0
    /\ best_solution = NoTables
    /\ best_score = 0
    /\ neighbor = NoTables
    /\ temperature = <<initial_temperature, 1>>
    /\ accepted_moves = <<>>
    /\ window_size = WindowSize
    /\ temp_history = InitialHistory(initial_temperature)
    /\ iteration = 0
    /\ result = NoTables
    /\ raised = "none"
    /\ max_seen = 0
    /\ twin = NoTwin
    /\ preferences_df = <<>>

\* one pass: the test of lines 64-66, then lines 79/86 and 89-96
TraceMove(outcome) == LoopRuns /\ RecordMove(outcome)

TraceNext == \E outcome \in {0, 1} : TraceMove(outcome)

TraceSpec == TraceInit /\ [][TraceNext]_vars

\* the entries of a trace that are strictly above the entry before them
Increases(h) == Cardinality({i \in 2..Len(h) : Less(h[i - 1], h[i])})

\* C22: in the temperature trace of a run that made at least one pass, the
\* entries strictly above their predecessor are fewer than half the length
\* of the trace (initial_temperature > 0, the window of 100 outcomes)
C22_IncreasesBelowHalf ==
    iteration >= 1 => 2 * Increases(temp_history) < Len(temp_history)

\* one accepted move and eleven rejected ones: three coolings while the rate
\* is above 0.3, then at eleven outcomes the rate 1/11 reheats, and at twelve
\* the reheat is stopped at initial_temperature: two increases in twelve
C22_Witness ==
    /\ window_size = WindowSize
    /\ Len(temp_history) = 12
    /\ Increases(temp_history) = 2
    /\ Less(temp_history[10], temp_history[11])
    /\ temperature = <<initial_temperature, 1>>

\* C23: a call of solve_with_simulated_annealing, from its first line to its
\* return, its exception or its hang, leaves the people set, the preference
\* graph (nodes, edges, weights), num_tables and table_size as they were, so
\* a later solve on the same allocator starts from the same inputs
C23_SolveKeepsAllocator ==
    [][(pc # "idle" \/ pc' # "idle") =>
        /\ people' = people
        /\ adj' = adj
        /\ num_tables' = num_tables
        /\ table_size' = table_size]_vars

\* a solve that seated people, made a pass and returned, on an allocator with
\* three people and at least one edge
C23_Witness ==
    /\ pc = "done"
    /\ iteration >= 1
    /\ Cardinality(people) = 3
    /\ adj # NoEdges
    /\ Seated(result) # {}

\* ---- the results workbook of solve_and_save ------------------------------
\* excel_io.py lines 100-107: the rows of the Table Summary sheet, one for
\* each table_num in range(1, NumTables + 1), with NumPeople the length of
\* allocation.get(table_num, set())
table_summary(allocation, n) ==
    [table_num \in 1..n |->
        IF table_num \in DOMAIN allocation
        THEN Cardinality(allocation[table_num]) ELSE 0]

\* C24: the Table Summary sheet has one row for each table of the returned
\* allocation, the row's NumPeople is the number of people the allocation
\* seats at that table (row k of the sheet for the k-th table, which the
\* allocation keeps under the index k - 1), and the NumPeople column sums
\* to the number of seated people
C24_TableSummary ==
    pc = "done" =>
        LET summary == table_summary(result, num_tables)
        IN  /\ Cardinality(DOMAIN summary) = Cardinality(DOMAIN result)
            /\ \A table_num \in DOMAIN summary :
                   summary[table_num] = Cardinality(result[table_num - 1])
            /\ SumFn(summary) = Seats(result)

\* ---- the Preferences sheet and process_preferences -----------------------
\* A row of the sheet: the Person cell, the Preferences cell as the names it
\* lists between commas (none for an empty cell), and the PreferenceWeight.
SheetRows ==
    [Person : People, Preferences : PreferenceLists, PreferenceWeight : Weights]

\* the sheets of up to MaxRows rows, one row for a person
Sheets ==
    {df \in UNION {[1..n -> SheetRows] : n \in 0..MaxRows} :
        \A i, j \in DOMAIN df : df[i].Person = df[j].Person => i = j}

\* the names of the Person column
PersonColumn(df) == {df[i].Person : i \in DOMAIN df}

\* excel_io.py lines 61-66: the rows in order; a row whose Preferences cell
\* is empty is passed over, every other row is an add_preference call
RECURSIVE process_rows(_, _, _)
process_rows(df, ps, g) ==
    IF df = <<>> THEN <<ps, g>>
    ELSE LET row == Head(df)
         IN  IF row.Preferences = {}
             THEN process_rows(Tail(df), ps, g)
             ELSE process_rows(Tail(df),
                               ps \cup {row.Person} \cup row.Preferences,
                               AddEdges(g, row.Person, row.Preferences,
                                        row.PreferenceWeight))

\* a workbook has been loaded: three tables, a sheet of up to MaxRows rows
SheetInit ==
    /\ num_tables = 3
    /\ table_size \in {1, 2}
    /\ people = {}
    /\ adj = NoEdges
    /\ named = NoEdges
    /\ calls = 0
    /\ pc = "sheet"
    /\ max_iterations = 0
    /\ initial_temperature = 0
    /\ min_temperature = 0
    /\ initial_solution = NoTables
    /\ current_solution = NoTables
    /\ current_score = 0
    /\ best_solution = NoTables
    /\ best_score = 0
    /\ neighbor = NoTables
    /\ temperature = <<0, 1>>
    /\ accepted_moves = <<>>
    /\ window_size = 0
    /\ temp_history = <<>>
    /\ iteration = 0
    /\ result = NoTables
    /\ raised = "none"
    /\ max_seen = 0
    /\ twin = NoTwin
    /\ preferences_df \in Sheets

\* process_preferences, excel_io.py lines 49-68: a new allocator, then the rows
ProcessPreferences ==
    /\ pc = "sheet"
    /\ LET built == process_rows(preferences_df, {}, NoEdges)
       IN  /\ people' = built[1]
           /\ adj' = built[2]
    /\ pc' = "idle"
    /\ UNCHANGED <<num_tables, table_size, named, calls, twin, preferences_df>>
    /\ UNCHANGED solve_vars

\* solve_and_save, excel_io.py lines 83-84: process_preferences, then one
\* solve with the default temperatures; one pass of the loop is followed,
\* since no pass changes who is seated
SheetNext ==
    \/ ProcessPreferences
    \/ \E people_list \in Perms(people), t0 \in InitialTemperatureChoices :
          Solve(1, t0, 1, people_list)
    \/ \E c \in SwapCandidates(current_solution), lucky \in BOOLEAN :
          Iterate(c, lucky)
    \/ Hang
    \/ Return

SheetSpec == SheetInit /\ [][SheetNext]_vars

\* C25: process_preferences registers every person of the Person column,
\* also one whose Preferences cell is empty and whom no other row lists, so
\* that the solve seats every person of the column when the tables have
\* room for everybody
C25_EveryListedPersonRegistered ==
    /\ pc # "sheet" => PersonColumn(preferences_df) \subseteq people
    /\ (pc = "done" /\ Cardinality(PersonColumn(preferences_df) \cup people)
                          <= num_tables * table_size)
          => PersonColumn(preferences_df) \subseteq Seated(result)

\* the assignments of a run after its start: the current and the best one,
\* the neighbor once a pass has made one, the result once returned
RunAssignments ==
    {current_solution, best_solution}
        \cup (IF iteration >= 1 THEN {neighbor} ELSE {})
        \cup (IF pc = "done" THEN {result} ELSE {})

\* C26: throughout a run and in the returned assignment every table holds as
\* many people as the initial fill gave it and the seated people are the
\* ones the initial fill seated: a person the fill dropped is never seated
C26_FillIsKept ==
    Started =>
        \A tables \in RunAssignments :
            /\ DOMAIN tables = DOMAIN initial_solution
            /\ \A i \in DOMAIN tables :
                   Cardinality(tables[i]) = Cardinality(initial_solution[i])
            /\ Seated(tables) = Seated(initial_solution)
            /\ (people \ Seated(initial_solution)) \cap Seated(tables) = {}

\* three people for two seats: the fill dropped one, a move was accepted and
\* the run returned with a current assignment other than the initial one
C26_Witness ==
    /\ pc = "done" /\ iteration >= 1
    /\ people \ Seated(initial_solution) # {}
    /\ current_solution # initial_solution
    /\ 1 \in {accepted_moves[i] : i \in DOMAIN accepted_moves}

\* C27: between the passes of a run the cached current_score is the score of
\* the current assignment and the cached best_score is the score of the best
\* assignment, which later swaps of the current assignment do not alter
C27_CachedScores ==
    Started =>
        /\ current_score = calculate_satisfaction_score(adj, current_solution)
        /\ best_score = calculate_satisfaction_score(adj, best_solution)

\* the best assignment was replaced by an improving move, and a later
\* accepted move took the current assignment below it
C27_Witness ==
    /\ Started /\ iteration >= 2
    /\ best_solution # initial_solution
    /\ best_solution # current_solution
    /\ best_score > current_score
    /\ best_score > calculate_satisfaction_score(adj, initial_solution)

\* C28: a pass whose neighbor is rejected records a 0 and leaves the current
\* assignment, the current score, the best assignment and the best score as
\* they were; besides the window, the temperature and its trace, the pass
\* counter and the neighbor itself nothing changes
C28_RejectionKeepsState ==
    [][(pc = "loop" /\ iteration' = iteration + 1
            /\ LastOutcome(accepted_moves') = 0) =>
        /\ current_solution' = current_solution
        /\ current_score' = current_score
        /\ best_solution' = best_solution
        /\ best_score' = best_score
        /\ accepted_moves' = Append(accepted_moves, 0)
        /\ UNCHANGED <<allocator_vars, initial_solution, result, raised,
                       max_iterations, initial_temperature, min_temperature>>]_vars

\* a move was accepted, the next neighbor was rejected: the current
\* assignment is the one of the first pass and not the second neighbor
C28_Witness ==
    /\ Started
    /\ accepted_moves = <<1, 0>>
    /\ current_solution # initial_solution
    /\ current_solution # neighbor

\* the edges counted, their weights left out
max_possible_score_edge_count(g) ==
    Cardinality({r \in DOMAIN g : r[1] <= r[2]})

\* excel_io.py line 88: the sum of the weights of the edges of the graph,
\* each undirected edge once
max_possible_score(g) ==
    SumFn([q \in {r \in DOMAIN g : r[1] <= r[2]} |-> g[q]])

\* excel_io.py line 89, as a fraction
satisfaction_rate(total_score, mps) ==
    IF mps > 0 THEN Frac(total_score * 100, mps) ELSE <<0, 1>>

\* C29: the weights being positive, the score of every assignment of a run
\* lies between 0 and the sum of the edge weights of the graph, the
\* satisfaction rate of the returned assignment lies between 0 and 100, and
\* it is 0 for a graph without edges
C29_RateWithinBounds ==
    Started =>
        /\ \A tables \in RunAssignments :
               /\ 0 <= calculate_satisfaction_score(adj, tables)
               /\ calculate_satisfaction_score(adj, tables) <= max_possible_score(adj)
        /\ pc = "done" =>
               LET rate == satisfaction_rate(
                               calculate_satisfaction_score(adj, result),
                               max_possible_score(adj))
               IN  /\ 0 <= rate[1] /\ rate[2] > 0
                   /\ rate[1] <= 100 * rate[2]
                   /\ adj = NoEdges => rate = <<0, 1>>

\* a returned assignment that seats the ends of one edge together and the
\* ends of another apart: a rate strictly between 0 and 100
C29_Witness ==
    /\ pc = "done" /\ iteration >= 1
    /\ adj # NoEdges
    /\ 0 < calculate_satisfaction_score(adj, result)
    /\ calculate_satisfaction_score(adj, result) < max_possible_score(adj)

====
